---- MODULE Spec2Model ----
(***************************************************************************)
(* Model of stan::model::rvalue (src/src/stan/model/indexing/rvalue.hpp):  *)
(* the resolution of index lists against Eigen vectors, Eigen matrices and *)
(* std::vector arrays.                                                     *)
(*                                                                         *)
(* Every overload of rvalue is an operator that returns an outcome record  *)
(*   [status, checks, slices, val]            when it returns a value,     *)
(*   [status, checks, slices, label, max, index]  when check_range throws, *)
(* where checks is the sequence of check_range calls made, in order, and   *)
(* slices the sequence of Eigen accesses made, in order.  One action per   *)
(* overload applies it to the container chosen by Init.                    *)
(***************************************************************************)
EXTENDS Integers, Sequences, FiniteSets, TLC

VARIABLES x, overload, idxs, result, transient

vars == <<x, overload, idxs, result, transient>>

----------------------------------------------------------------------------
(* Bounds of the model *)

MaxLen == 5

MaxMulti == 3

MaxDim == 3

MaxMultiMat == 2

MaxArr == 3

\* Coefficients are scale * (1-based linear position), so that every
\* coefficient of a container is distinct and names the place it came from.
Scales == {1, 10}

----------------------------------------------------------------------------
(* Index types (stan/model/indexing/index.hpp), as used by rvalue.hpp *)

index_uni(n) == [kind |-> "uni", n_ |-> n]

index_multi(ns) == [kind |-> "multi", ns_ |-> ns]

index_omni == [kind |-> "omni"]

index_min(lo) == [kind |-> "min", min_ |-> lo]

index_max(hi) == [kind |-> "max", max_ |-> hi]

index_min_max(lo, hi) == [kind |-> "min_max", min_ |-> lo, max_ |-> hi]

----------------------------------------------------------------------------
(* Containers *)

Vector(cs) == [shape |-> "vector", coeffs |-> cs]

Matrix(R, C, a) == [shape |-> "matrix", nrows |-> R, ncols |-> C, coeffs |-> a]

\* std::vector<T>; T is a scalar, an Eigen vector or a std::vector
Array(es) == [shape |-> "array", elems |-> es]

Scalar(v) == [shape |-> "scalar", value |-> v]

IsArray(c) == c.shape = "array"

IsVector(c) == c.shape = "vector"

IsMatrix(c) == c.shape = "matrix"

size(v) == Len(v.coeffs)

rows(m) == m.nrows

cols(m) == m.ncols

----------------------------------------------------------------------------
(* Outcomes *)

Check(label, max, index) == [label |-> label, max |-> max, index |-> index]

Slice(op, off, len, ext) == [op |-> op, off |-> off, len |-> len, ext |-> ext]

\* math::check_range(function, name, max, index): passes iff 1 <= index <= max
check_range(c) == c.index >= 1 /\ c.index <= c.max

Return(cs, ss, val) ==
    [status |-> "ok", checks |-> cs, slices |-> ss, val |-> val]

\* cs are the checks that passed before c, the check that failed
Throw(cs, ss, c) ==
    [status |-> "RangeError", checks |-> Append(cs, c), slices |-> ss,
     label |-> c.label, max |-> c.max, index |-> c.index]

\* an overload that made checks cs and slices ss and then returned the
\* outcome r of a nested call of rvalue
After(cs, ss, r) ==
    [r EXCEPT !.checks = cs \o r.checks, !.slices = ss \o r.slices]

NotCalled == [status |-> "none"]

----------------------------------------------------------------------------
(* Eigen accessors on vectors; offsets are 0-based *)

coeff(v, i) == v.coeffs[i + 1]

segment(v, start, n) == Vector([k \in 1..n |-> v.coeffs[start + k]])

head(v, n) == Vector([k \in 1..n |-> v.coeffs[k]])

tail(v, n) == Vector([k \in 1..n |-> v.coeffs[size(v) - n + k]])

\* gather as it would be if the positions were read back to front
gather_reversed(v, ns) ==
    Vector([i \in 1..Len(ns) |-> v.coeffs[(ns[Len(ns) + 1 - i] - 1) + 1]])

\* v(idx2 - 1) with idx2 the array of the 1-based positions ns
gather(v, ns) == Vector([i \in 1..Len(ns) |-> v.coeffs[(ns[i] - 1) + 1]])

\* the loop over ns as it would be if it went on after a failure and
\* reported the last failing entry
LastBad(ns, max) ==
    IF \E i \in 1..Len(ns) : ~check_range(Check("", max, ns[i]))
    THEN CHOOSE i \in 1..Len(ns) :
            /\ ~check_range(Check("", max, ns[i]))
            /\ \A j \in (i + 1)..Len(ns) : check_range(Check("", max, ns[j]))
    ELSE 0

\* The checks made by a loop `for (idx_i : ns) check_range(label, max, idx_i)`
\* that leaves at the first failure: the position of the first failing entry
\* of ns, or 0 when every entry passes.
FirstBad(ns, max) ==
    IF \E i \in 1..Len(ns) : ~check_range(Check("", max, ns[i]))
    THEN CHOOSE i \in 1..Len(ns) :
            /\ ~check_range(Check("", max, ns[i]))
            /\ \A j \in 1..(i - 1) : check_range(Check("", max, ns[j]))
    ELSE 0

LoopChecks(label, max, ns, upto) ==
    [i \in 1..upto |-> Check(label, max, ns[i])]

\* The outcome of the loop: no outcome (status "ok", no value) when all pass.
MultiLoop(cs, ss, label, max, ns) ==
    LET b == FirstBad(ns, max)
    IN  IF b > 0
        THEN Throw(cs \o LoopChecks(label, max, ns, b - 1), ss,
                   Check(label, max, ns[b]))
        ELSE [status |-> "ok",
              checks |-> cs \o LoopChecks(label, max, ns, Len(ns)),
              slices |-> ss]

----------------------------------------------------------------------------
(* vector / row_vector overloads *)

\* vector[uni] as it would be with the extent taken one short
rvalue_vector_uni_short_extent(v, idx) ==
    LET c == Check("vector[uni] indexing", size(v) - 1, idx.n_)
    IN  IF ~check_range(c) THEN Throw(<<>>, <<>>, c)
        ELSE Return(<<c>>, <<Slice("coeff", idx.n_ - 1, 1, size(v))>>,
                    coeff(v, idx.n_ - 1))

\* rvalue(Vec&& v, name, index_uni idx)
rvalue_vector_uni(v, idx) ==
    LET c == Check("vector[uni] indexing", size(v), idx.n_)
    IN  IF ~check_range(c) THEN Throw(<<>>, <<>>, c)
        ELSE Return(<<c>>, <<Slice("coeff", idx.n_ - 1, 1, size(v))>>,
                    coeff(v, idx.n_ - 1))

\* rvalue(EigVec&& v, name, MultiIndex&& idx)
rvalue_vector_multi(v, idx) ==
    LET v_size == size(v)
        l == MultiLoop(<<>>, <<>>, "vector[multi] indexing", v_size, idx.ns_)
    IN  IF l.status # "ok" THEN l
        ELSE Return(l.checks,
                    [i \in 1..Len(idx.ns_) |->
                        Slice("coeff", idx.ns_[i] - 1, 1, v_size)],
                    gather(v, idx.ns_))

\* vector[min_max] as it would be if max were validated before the
\* comparison of max with min
rvalue_vector_min_max_max_always(v, idx) ==
    LET c1 == Check("vector[min_max] min indexing", size(v), idx.min_)
        slice_start == idx.min_ - 1
        c2 == Check("vector[min_max] max indexing", size(v), idx.max_)
        slice_size == idx.max_ - slice_start
    IN  IF ~check_range(c1) THEN Throw(<<>>, <<>>, c1)
        ELSE IF ~check_range(c2) THEN Throw(<<c1>>, <<>>, c2)
        ELSE IF idx.max_ >= idx.min_
        THEN Return(<<c1, c2>>,
                    <<Slice("segment", slice_start, slice_size, size(v))>>,
                    segment(v, slice_start, slice_size))
        ELSE Return(<<c1, c2>>, <<Slice("segment", slice_start, 0, size(v))>>,
                    segment(v, slice_start, 0))

\* vector[min_max] as it would be if the empty range were returned before
\* min is validated
rvalue_vector_min_max_empty_first(v, idx) ==
    LET c1 == Check("vector[min_max] min indexing", size(v), idx.min_)
        slice_start == idx.min_ - 1
        c2 == Check("vector[min_max] max indexing", size(v), idx.max_)
        slice_size == idx.max_ - slice_start
    IN  IF idx.max_ < idx.min_
        THEN Return(<<>>, <<Slice("segment", 0, 0, size(v))>>, segment(v, 0, 0))
        ELSE IF ~check_range(c1) THEN Throw(<<>>, <<>>, c1)
        ELSE IF ~check_range(c2) THEN Throw(<<c1>>, <<>>, c2)
        ELSE Return(<<c1, c2>>,
                    <<Slice("segment", slice_start, slice_size, size(v))>>,
                    segment(v, slice_start, slice_size))

\* rvalue(Vec&& v, name, index_min_max idx)
rvalue_vector_min_max(v, idx) ==
    LET c1 == Check("vector[min_max] min indexing", size(v), idx.min_)
        slice_start == idx.min_ - 1
        c2 == Check("vector[min_max] max indexing", size(v), idx.max_)
        slice_size == idx.max_ - slice_start
    IN  IF ~check_range(c1) THEN Throw(<<>>, <<>>, c1)
        ELSE IF idx.max_ >= idx.min_
        THEN IF ~check_range(c2) THEN Throw(<<c1>>, <<>>, c2)
             ELSE Return(<<c1, c2>>,
                         <<Slice("segment", slice_start, slice_size, size(v))>>,
                         segment(v, slice_start, slice_size))
        ELSE Return(<<c1>>, <<Slice("segment", slice_start, 0, size(v))>>,
                    segment(v, slice_start, 0))

\* vector[min] as it would be with the tail length computed without the + 1
rvalue_vector_min_short_tail(v, idx) ==
    LET c == Check("vector[min] indexing", size(v), idx.min_)
        n == size(v) - idx.min_
    IN  IF ~check_range(c) THEN Throw(<<>>, <<>>, c)
        ELSE Return(<<c>>, <<Slice("tail", size(v) - n, n, size(v))>>,
                    tail(v, n))

\* rvalue(Vec&& x, name, index_min idx)
rvalue_vector_min(v, idx) ==
    LET c == Check("vector[min] indexing", size(v), idx.min_)
        n == size(v) - idx.min_ + 1
    IN  IF ~check_range(c) THEN Throw(<<>>, <<>>, c)
        ELSE Return(<<c>>, <<Slice("tail", size(v) - n, n, size(v))>>,
                    tail(v, n))

\* vector[max] as it would be if max were validated whatever its sign
rvalue_vector_max_always_checked(v, idx) ==
    LET c == Check("vector[max] indexing", size(v), idx.max_)
    IN  IF ~check_range(c) THEN Throw(<<>>, <<>>, c)
        ELSE Return(<<c>>, <<Slice("head", 0, idx.max_, size(v))>>,
                    head(v, idx.max_))

\* rvalue(Vec&& x, name, index_max idx)
rvalue_vector_max(v, idx) ==
    LET c == Check("vector[max] indexing", size(v), idx.max_)
    IN  IF idx.max_ > 0
        THEN IF ~check_range(c) THEN Throw(<<>>, <<>>, c)
             ELSE Return(<<c>>, <<Slice("head", 0, idx.max_, size(v))>>,
                         head(v, idx.max_))
        ELSE Return(<<>>, <<Slice("head", 0, 0, size(v))>>, head(v, 0))

----------------------------------------------------------------------------
(* Eigen accessors on matrices; offsets are 0-based *)

coeff2(m, i, j) == m.coeffs[i + 1][j + 1]

row(m, i) == Vector([j \in 1..cols(m) |-> m.coeffs[i + 1][j]])

col(m, j) == Vector([i \in 1..rows(m) |-> m.coeffs[i][j + 1]])

block(m, i0, j0, nr, nc) ==
    Matrix(nr, nc, [i \in 1..nr |-> [j \in 1..nc |-> m.coeffs[i0 + i][j0 + j]]])

topRows(m, n) == block(m, 0, 0, n, cols(m))

bottomRows(m, n) == block(m, rows(m) - n, 0, n, cols(m))

middleRows(m, start, n) == block(m, start, 0, n, cols(m))

leftCols(m, n) == block(m, 0, 0, rows(m), n)

rightCols(m, n) == block(m, 0, cols(m) - n, rows(m), n)

middleCols(m, start, n) == block(m, 0, start, rows(m), n)

\* x(rs - 1, Eigen::all)
gatherRows(m, rs) ==
    Matrix(Len(rs), cols(m),
           [i \in 1..Len(rs) |-> [j \in 1..cols(m) |-> m.coeffs[(rs[i] - 1) + 1][j]]])

\* x(Eigen::all, cs - 1)
gatherCols(m, cs) ==
    Matrix(rows(m), Len(cs),
           [i \in 1..rows(m) |-> [j \in 1..Len(cs) |-> m.coeffs[i][(cs[j] - 1) + 1]]])

\* x(rs - 1, cs - 1)
gatherBlock(m, rs, cs) ==
    Matrix(Len(rs), Len(cs),
           [i \in 1..Len(rs) |->
              [j \in 1..Len(cs) |-> m.coeffs[(rs[i] - 1) + 1][(cs[j] - 1) + 1]]])

\* x(i, cs - 1)
gatherInRow(m, i, cs) ==
    Vector([j \in 1..Len(cs) |-> m.coeffs[i + 1][(cs[j] - 1) + 1]])

\* x(rs - 1, j)
gatherInCol(m, rs, j) ==
    Vector([i \in 1..Len(rs) |-> m.coeffs[(rs[i] - 1) + 1][j + 1]])

RowSlice(op, off, len, m) == Slice(op, off, len, rows(m))

ColSlice(op, off, len, m) == Slice(op, off, len, cols(m))

GatherSlices(op, ns, ext) ==
    [i \in 1..Len(ns) |-> Slice(op, ns[i] - 1, 1, ext)]

----------------------------------------------------------------------------
(* nil and omni overloads: the value itself *)

\* rvalue(T&& x, name)
rvalue_nil(c) == Return(<<>>, <<>>, c)

\* [omni] as it would be if omni were resolved as the range 1:N, with the
\* bounds check of a range
rvalue_omni_as_range(c, idx) ==
    LET ext == IF IsVector(c) THEN size(c)
               ELSE IF IsMatrix(c) THEN rows(c) ELSE Len(c.elems)
        ck == Check("[omni] indexing", ext, 1)
    IN  IF ~check_range(ck) THEN Throw(<<>>, <<>>, ck)
        ELSE Return(<<ck>>, <<>>, c)

\* rvalue(T&& x, name, index_omni)
rvalue_omni(c, idx) == Return(<<>>, <<>>, c)

\* rvalue(T&& x, name, index_omni, index_omni)
rvalue_omni_omni(c, idx1, idx2) == Return(<<>>, <<>>, c)

----------------------------------------------------------------------------
(* matrix overloads with one index: a subset of the rows *)

\* rvalue(Mat&& x, name, index_uni idx)
rvalue_matrix_uni(m, idx) ==
    LET c == Check("matrix[uni] indexing", rows(m), idx.n_)
    IN  IF ~check_range(c) THEN Throw(<<>>, <<>>, c)
        ELSE Return(<<c>>, <<RowSlice("row", idx.n_ - 1, 1, m)>>,
                    row(m, idx.n_ - 1))

\* rvalue(EigMat&& x, name, MultiIndex&& idx)
rvalue_matrix_multi(m, idx) ==
    LET l == MultiLoop(<<>>, <<>>, "matrix[multi] row indexing", rows(m),
                       idx.ns_)
    IN  IF l.status # "ok" THEN l
        ELSE Return(l.checks, GatherSlices("rows", idx.ns_, rows(m)),
                    gatherRows(m, idx.ns_))

\* rvalue(Mat&& x, name, index_min idx)
rvalue_matrix_min(m, idx) ==
    LET row_size == rows(m) - (idx.min_ - 1)
        c == Check("matrix[min] row indexing", rows(m), idx.min_)
    IN  IF ~check_range(c) THEN Throw(<<>>, <<>>, c)
        ELSE Return(<<c>>,
                    <<RowSlice("bottomRows", rows(m) - row_size, row_size, m)>>,
                    bottomRows(m, row_size))

\* matrix[max] as it would be if max were validated whatever its sign
rvalue_matrix_max_always_checked(m, idx) ==
    LET c == Check("matrix[max] row indexing", rows(m), idx.max_)
    IN  IF ~check_range(c) THEN Throw(<<>>, <<>>, c)
        ELSE Return(<<c>>, <<RowSlice("topRows", 0, idx.max_, m)>>,
                    topRows(m, idx.max_))

\* rvalue(Mat&& x, name, index_max idx)
rvalue_matrix_max(m, idx) ==
    LET c == Check("matrix[max] row indexing", rows(m), idx.max_)
    IN  IF idx.max_ > 0
        THEN IF ~check_range(c) THEN Throw(<<>>, <<>>, c)
             ELSE Return(<<c>>, <<RowSlice("topRows", 0, idx.max_, m)>>,
                         topRows(m, idx.max_))
        ELSE Return(<<>>, <<RowSlice("topRows", 0, 0, m)>>, topRows(m, 0))

\* rvalue(Mat&& x, name, index_min_max idx)
rvalue_matrix_min_max(m, idx) ==
    LET c1 == Check("matrix[min_max] min row indexing", rows(m), idx.min_)
        c2 == Check("matrix[min_max] max row indexing", rows(m), idx.max_)
    IN  IF ~check_range(c1) THEN Throw(<<>>, <<>>, c1)
        ELSE IF idx.max_ >= idx.min_
        THEN IF ~check_range(c2) THEN Throw(<<c1>>, <<>>, c2)
             ELSE Return(<<c1, c2>>,
                         <<RowSlice("middleRows", idx.min_ - 1,
                                    idx.max_ - idx.min_ + 1, m)>>,
                         middleRows(m, idx.min_ - 1, idx.max_ - idx.min_ + 1))
        ELSE Return(<<c1>>, <<RowSlice("middleRows", idx.min_ - 1, 0, m)>>,
                    middleRows(m, idx.min_ - 1, 0))

\* Overload resolution of rvalue(c, name, idx) for an Eigen vector or matrix c
rvalue1(c, idx) ==
    IF idx.kind = "omni" THEN rvalue_omni(c, idx)
    ELSE IF IsVector(c)
    THEN CASE idx.kind = "uni" -> rvalue_vector_uni(c, idx)
           [] idx.kind = "multi" -> rvalue_vector_multi(c, idx)
           [] idx.kind = "min" -> rvalue_vector_min(c, idx)
           [] idx.kind = "max" -> rvalue_vector_max(c, idx)
           [] idx.kind = "min_max" -> rvalue_vector_min_max(c, idx)
    ELSE CASE idx.kind = "uni" -> rvalue_matrix_uni(c, idx)
           [] idx.kind = "multi" -> rvalue_matrix_multi(c, idx)
           [] idx.kind = "min" -> rvalue_matrix_min(c, idx)
           [] idx.kind = "max" -> rvalue_matrix_max(c, idx)
           [] idx.kind = "min_max" -> rvalue_matrix_min_max(c, idx)

----------------------------------------------------------------------------
(* matrix overloads with a row index and a column index *)

\* matrix[min_max, min_max] as it would be without the two branches for
\* exactly one empty range: any empty range gives the 0 x 0 block
rvalue_matrix_min_max_min_max_no_partial(m, row_idx, col_idx) ==
    LET c1 == Check("matrix[min_max, min_max] min row indexing", rows(m),
                    row_idx.min_)
        c2 == Check("matrix[min_max, min_max] min column indexing", cols(m),
                    col_idx.min_)
        c3 == Check("matrix[min_max, min_max] max row indexing", rows(m),
                    row_idx.max_)
        c4 == Check("matrix[min_max, min_max] max column indexing", cols(m),
                    col_idx.max_)
        i0 == row_idx.min_ - 1
        j0 == col_idx.min_ - 1
        nr == row_idx.max_ - (row_idx.min_ - 1)
        nc == col_idx.max_ - (col_idx.min_ - 1)
        Blk(cs, r, c) ==
            Return(cs, <<RowSlice("block", i0, r, m), ColSlice("block", j0, c, m)>>,
                   block(m, i0, j0, r, c))
    IN  IF ~check_range(c1) THEN Throw(<<>>, <<>>, c1)
        ELSE IF ~check_range(c2) THEN Throw(<<c1>>, <<>>, c2)
        ELSE IF row_idx.max_ >= row_idx.min_ /\ col_idx.max_ >= col_idx.min_
        THEN IF ~check_range(c3) THEN Throw(<<c1, c2>>, <<>>, c3)
             ELSE IF ~check_range(c4) THEN Throw(<<c1, c2, c3>>, <<>>, c4)
             ELSE Blk(<<c1, c2, c3, c4>>, nr, nc)
        ELSE Blk(<<c1, c2>>, 0, 0)

\* matrix[min_max, min_max] as it would be if the lower column bound were
\* validated for a non-empty column range only
rvalue_matrix_min_max_min_max_late_col_min(m, row_idx, col_idx) ==
    LET c1 == Check("matrix[min_max, min_max] min row indexing", rows(m),
                    row_idx.min_)
        c2 == Check("matrix[min_max, min_max] min column indexing", cols(m),
                    col_idx.min_)
        c3 == Check("matrix[min_max, min_max] max row indexing", rows(m),
                    row_idx.max_)
        c4 == Check("matrix[min_max, min_max] max column indexing", cols(m),
                    col_idx.max_)
        i0 == row_idx.min_ - 1
        j0 == col_idx.min_ - 1
        nr == row_idx.max_ - (row_idx.min_ - 1)
        nc == col_idx.max_ - (col_idx.min_ - 1)
        Blk(cs, r, c) ==
            Return(cs, <<RowSlice("block", i0, r, m), ColSlice("block", j0, c, m)>>,
                   block(m, i0, j0, r, c))
    IN  IF ~check_range(c1) THEN Throw(<<>>, <<>>, c1)
        ELSE IF row_idx.max_ >= row_idx.min_ /\ col_idx.max_ >= col_idx.min_
        THEN IF ~check_range(c2) THEN Throw(<<c1>>, <<>>, c2)
             ELSE IF ~check_range(c3) THEN Throw(<<c1, c2>>, <<>>, c3)
             ELSE IF ~check_range(c4) THEN Throw(<<c1, c2, c3>>, <<>>, c4)
             ELSE Blk(<<c1, c2, c3, c4>>, nr, nc)
        ELSE IF row_idx.max_ >= row_idx.min_
        THEN IF ~check_range(c3) THEN Throw(<<c1>>, <<>>, c3)
             ELSE Blk(<<c1, c3>>, nr, 0)
        ELSE IF col_idx.max_ >= col_idx.min_
        THEN IF ~check_range(c2) THEN Throw(<<c1>>, <<>>, c2)
             ELSE IF ~check_range(c4) THEN Throw(<<c1, c2>>, <<>>, c4)
             ELSE Blk(<<c1, c2, c4>>, 0, nc)
        ELSE Blk(<<c1>>, 0, 0)

\* rvalue(Mat&& x, name, index_min_max row_idx, index_min_max col_idx)
rvalue_matrix_min_max_min_max(m, row_idx, col_idx) ==
    LET c1 == Check("matrix[min_max, min_max] min row indexing", rows(m),
                    row_idx.min_)
        c2 == Check("matrix[min_max, min_max] min column indexing", cols(m),
                    col_idx.min_)
        c3 == Check("matrix[min_max, min_max] max row indexing", rows(m),
                    row_idx.max_)
        c4 == Check("matrix[min_max, min_max] max column indexing", cols(m),
                    col_idx.max_)
        i0 == row_idx.min_ - 1
        j0 == col_idx.min_ - 1
        nr == row_idx.max_ - (row_idx.min_ - 1)
        nc == col_idx.max_ - (col_idx.min_ - 1)
        Blk(cs, r, c) ==
            Return(cs, <<RowSlice("block", i0, r, m), ColSlice("block", j0, c, m)>>,
                   block(m, i0, j0, r, c))
    IN  IF ~check_range(c1) THEN Throw(<<>>, <<>>, c1)
        ELSE IF ~check_range(c2) THEN Throw(<<c1>>, <<>>, c2)
        ELSE IF row_idx.max_ >= row_idx.min_ /\ col_idx.max_ >= col_idx.min_
        THEN IF ~check_range(c3) THEN Throw(<<c1, c2>>, <<>>, c3)
             ELSE IF ~check_range(c4) THEN Throw(<<c1, c2, c3>>, <<>>, c4)
             ELSE Blk(<<c1, c2, c3, c4>>, nr, nc)
        ELSE IF row_idx.max_ >= row_idx.min_
        THEN IF ~check_range(c3) THEN Throw(<<c1, c2>>, <<>>, c3)
             ELSE Blk(<<c1, c2, c3>>, nr, 0)
        ELSE IF col_idx.max_ >= col_idx.min_
        THEN IF ~check_range(c4) THEN Throw(<<c1, c2>>, <<>>, c4)
             ELSE Blk(<<c1, c2, c4>>, 0, nc)
        ELSE Blk(<<c1, c2>>, 0, 0)

\* matrix[uni,uni] as it would be with the column validated before the row
rvalue_matrix_uni_uni_col_first(m, row_idx, col_idx) ==
    LET c1 == Check("matrix[uni,uni] row indexing", rows(m), row_idx.n_)
        c2 == Check("matrix[uni,uni] column indexing", cols(m), col_idx.n_)
    IN  IF ~check_range(c2) THEN Throw(<<>>, <<>>, c2)
        ELSE IF ~check_range(c1) THEN Throw(<<c2>>, <<>>, c1)
        ELSE Return(<<c2, c1>>,
                    <<RowSlice("coeff", row_idx.n_ - 1, 1, m),
                      ColSlice("coeff", col_idx.n_ - 1, 1, m)>>,
                    coeff2(m, row_idx.n_ - 1, col_idx.n_ - 1))

\* rvalue(Mat&& x, name, index_uni row_idx, index_uni col_idx)
rvalue_matrix_uni_uni(m, row_idx, col_idx) ==
    LET c1 == Check("matrix[uni,uni] row indexing", rows(m), row_idx.n_)
        c2 == Check("matrix[uni,uni] column indexing", cols(m), col_idx.n_)
    IN  IF ~check_range(c1) THEN Throw(<<>>, <<>>, c1)
        ELSE IF ~check_range(c2) THEN Throw(<<c1>>, <<>>, c2)
        ELSE Return(<<c1, c2>>,
                    <<RowSlice("coeff", row_idx.n_ - 1, 1, m),
                      ColSlice("coeff", col_idx.n_ - 1, 1, m)>>,
                    coeff2(m, row_idx.n_ - 1, col_idx.n_ - 1))

\* rvalue(EigMat&& x, name, index_uni row_idx, MultiIndex&& col_idx)
rvalue_matrix_uni_multi(m, row_idx, col_idx) ==
    LET c1 == Check("matrix[uni, multi] row indexing", rows(m), row_idx.n_)
        x_cols == cols(m)
        l == MultiLoop(<<c1>>, <<>>, "matrix[uni, multi] column indexing",
                       x_cols, col_idx.ns_)
    IN  IF ~check_range(c1) THEN Throw(<<>>, <<>>, c1)
        ELSE IF l.status # "ok" THEN l
        ELSE Return(l.checks,
                    <<RowSlice("coeff", row_idx.n_ - 1, 1, m)>>
                      \o GatherSlices("cols", col_idx.ns_, x_cols),
                    gatherInRow(m, row_idx.n_ - 1, col_idx.ns_))

\* rvalue(EigMat&& x, name, MultiIndex&& row_idx, index_uni col_idx)
rvalue_matrix_multi_uni(m, row_idx, col_idx) ==
    LET c1 == Check("matrix[multi, uni] column indexing", cols(m), col_idx.n_)
        x_rows == rows(m)
        l == MultiLoop(<<c1>>, <<>>, "matrix[uni, multi] row indexing",
                       x_rows, row_idx.ns_)
    IN  IF ~check_range(c1) THEN Throw(<<>>, <<>>, c1)
        ELSE IF l.status # "ok" THEN l
        ELSE Return(l.checks,
                    GatherSlices("rows", row_idx.ns_, x_rows)
                      \o <<ColSlice("coeff", col_idx.n_ - 1, 1, m)>>,
                    gatherInCol(m, row_idx.ns_, col_idx.n_ - 1))

\* rvalue(EigMat&& x, name, RowMultiIndex&& row_idx, ColMultiIndex&& col_idx)
rvalue_matrix_multi_multi(m, row_idx, col_idx) ==
    LET x_rows == rows(m)
        x_cols == cols(m)
        l1 == MultiLoop(<<>>, <<>>, "matrix[uni, multi] row indexing",
                        x_rows, row_idx.ns_)
        l2 == MultiLoop(l1.checks, <<>>, "matrix[uni, multi] col indexing",
                        x_cols, col_idx.ns_)
    IN  IF l1.status # "ok" THEN l1
        ELSE IF l2.status # "ok" THEN l2
        ELSE Return(l2.checks,
                    GatherSlices("rows", row_idx.ns_, x_rows)
                      \o GatherSlices("cols", col_idx.ns_, x_cols),
                    gatherBlock(m, row_idx.ns_, col_idx.ns_))

\* rvalue(Mat&& x, name, const Idx& row_idx, index_uni col_idx)
rvalue_matrix_idx_uni(m, row_idx, col_idx) ==
    LET c == Check("matrix[..., uni] column indexing", cols(m), col_idx.n_)
    IN  IF ~check_range(c) THEN Throw(<<>>, <<>>, c)
        ELSE After(<<c>>, <<ColSlice("col", col_idx.n_ - 1, 1, m)>>,
                   rvalue1(col(m, col_idx.n_ - 1), row_idx))

\* rvalue(EigMat&& x, name, Idx&& row_idx, MultiIndex&& col_idx)
rvalue_matrix_idx_multi(m, row_idx, col_idx) ==
    LET x_cols == cols(m)
        l == MultiLoop(<<>>, <<>>, "matrix[..., multi] column indexing",
                       x_cols, col_idx.ns_)
    IN  IF l.status # "ok" THEN l
        ELSE After(l.checks, GatherSlices("cols", col_idx.ns_, x_cols),
                   rvalue1(gatherCols(m, col_idx.ns_), row_idx))

\* matrix[Idx, omni] as it would be if omni were resolved as the column
\* range 1:cols, with the bounds check of a range
rvalue_matrix_idx_omni_as_range(m, row_idx, col_idx) ==
    LET c == Check("matrix[..., omni] column indexing", cols(m), cols(m))
    IN  IF ~check_range(c) THEN Throw(<<>>, <<>>, c)
        ELSE After(<<c>>, <<ColSlice("leftCols", 0, cols(m), m)>>,
                   rvalue1(leftCols(m, cols(m)), row_idx))

\* rvalue(Mat&& x, name, Idx&& row_idx, index_omni)
rvalue_matrix_idx_omni(m, row_idx, col_idx) == rvalue1(m, row_idx)

\* matrix[Idx, min] as it would be with col_size computed without the - 1
rvalue_matrix_idx_min_short(m, row_idx, col_idx) ==
    LET col_size == cols(m) - col_idx.min_
        c == Check("matrix[..., min] column indexing", cols(m), col_idx.min_)
    IN  IF ~check_range(c) THEN Throw(<<>>, <<>>, c)
        ELSE After(<<c>>,
                   <<ColSlice("rightCols", cols(m) - col_size, col_size, m)>>,
                   rvalue1(rightCols(m, col_size), row_idx))

\* rvalue(Mat&& x, name, Idx&& row_idx, index_min col_idx)
rvalue_matrix_idx_min(m, row_idx, col_idx) ==
    LET col_size == cols(m) - (col_idx.min_ - 1)
        c == Check("matrix[..., min] column indexing", cols(m), col_idx.min_)
    IN  IF ~check_range(c) THEN Throw(<<>>, <<>>, c)
        ELSE After(<<c>>,
                   <<ColSlice("rightCols", cols(m) - col_size, col_size, m)>>,
                   rvalue1(rightCols(m, col_size), row_idx))

\* rvalue(Mat&& x, name, Idx&& row_idx, index_max col_idx)
rvalue_matrix_idx_max(m, row_idx, col_idx) ==
    LET c == Check("matrix[..., max] column indexing", cols(m), col_idx.max_)
    IN  IF col_idx.max_ > 0
        THEN IF ~check_range(c) THEN Throw(<<>>, <<>>, c)
             ELSE After(<<c>>, <<ColSlice("leftCols", 0, col_idx.max_, m)>>,
                        rvalue1(leftCols(m, col_idx.max_), row_idx))
        ELSE After(<<>>, <<ColSlice("leftCols", 0, 0, m)>>,
                   rvalue1(leftCols(m, 0), row_idx))

\* matrix[Idx, min_max] as it would be if the lower column bound were
\* validated for a non-empty column range only
rvalue_matrix_idx_min_max_unchecked_empty(m, row_idx, col_idx) ==
    LET c1 == Check("matrix[..., min_max] min column indexing", cols(m),
                    col_idx.min_)
        col_start == col_idx.min_ - 1
        c2 == Check("matrix[..., min_max] max column indexing", cols(m),
                    col_idx.max_)
    IN  IF col_idx.max_ >= col_idx.min_
        THEN IF ~check_range(c1) THEN Throw(<<>>, <<>>, c1)
             ELSE IF ~check_range(c2) THEN Throw(<<c1>>, <<>>, c2)
             ELSE After(<<c1, c2>>,
                        <<ColSlice("middleCols", col_start,
                                   col_idx.max_ - col_start, m)>>,
                        rvalue1(middleCols(m, col_start,
                                           col_idx.max_ - col_start), row_idx))
        ELSE After(<<>>, <<ColSlice("middleCols", col_start, 0, m)>>,
                   rvalue1(middleCols(m, col_start, 0), row_idx))

\* rvalue(Mat&& x, name, Idx&& row_idx, index_min_max col_idx)
rvalue_matrix_idx_min_max(m, row_idx, col_idx) ==
    LET c1 == Check("matrix[..., min_max] min column indexing", cols(m),
                    col_idx.min_)
        col_start == col_idx.min_ - 1
        c2 == Check("matrix[..., min_max] max column indexing", cols(m),
                    col_idx.max_)
    IN  IF ~check_range(c1) THEN Throw(<<>>, <<>>, c1)
        ELSE IF col_idx.max_ >= col_idx.min_
        THEN IF ~check_range(c2) THEN Throw(<<c1>>, <<>>, c2)
             ELSE After(<<c1, c2>>,
                        <<ColSlice("middleCols", col_start,
                                   col_idx.max_ - col_start, m)>>,
                        rvalue1(middleCols(m, col_start,
                                           col_idx.max_ - col_start), row_idx))
        ELSE After(<<c1>>, <<ColSlice("middleCols", col_start, 0, m)>>,
                   rvalue1(middleCols(m, col_start, 0), row_idx))

----------------------------------------------------------------------------
(* std::vector overloads.  Their outcomes carry one more field, moved: the  *)
(* paths (1-based positions, outermost first) of the parts of the container *)
(* that the call has moved from.                                            *)

\* rvalue_index_size(idx, size): the number of positions idx selects in a
\* sequence of that size, 0 for an empty range
rvalue_index_size(idx, sz) ==
    CASE idx.kind = "multi" -> Len(idx.ns_)
      [] idx.kind = "omni" -> sz
      [] idx.kind = "min" ->
            IF sz - idx.min_ + 1 > 0 THEN sz - idx.min_ + 1 ELSE 0
      [] idx.kind = "max" -> IF idx.max_ > 0 THEN idx.max_ ELSE 0
      [] idx.kind = "min_max" ->
            IF idx.max_ < idx.min_ THEN 0 ELSE idx.max_ - idx.min_ + 1

\* rvalue_at(i, idx): the 1-based position that idx selects for the 0-based
\* output position i
rvalue_at(i, idx) ==
    CASE idx.kind = "multi" -> idx.ns_[i + 1]
      [] idx.kind = "omni" -> i + 1
      [] idx.kind = "min" -> idx.min_ + i
      [] idx.kind = "max" -> i + 1
      [] idx.kind = "min_max" -> idx.min_ + i

\* stan::math::check_greater_or_equal(function, name, y, low): passes iff
\* y >= low, throws std::domain_error otherwise
check_greater_or_equal(y, low) == y >= low

DomainError(cs, ss) ==
    [status |-> "DomainError", checks |-> cs, slices |-> ss]

\* the type deduced for StdVec in rvalue(StdVec&& v, ...) from an rvalue and
\* from an lvalue argument
DeducedStdVec(tr) == IF tr THEN "std::vector<T>" ELSE "std::vector<T>&"

\* std::is_rvalue_reference<StdVec>::value
is_rvalue_reference(T) == T = "std::vector<T>&&"

\* what a move leaves behind: a scalar keeps its value, a vector or an
\* array is left empty
MovedFrom(c) ==
    IF c.shape = "scalar" THEN c
    ELSE IF c.shape = "vector" THEN Vector(<<>>)
    ELSE IF c.shape = "array" THEN Array(<<>>)
    ELSE Matrix(0, 0, <<>>)

\* the paths of ps below position n, relative to the element at n
Below(ps, n) == {Tail(p) : p \in {q \in ps : q # <<>> /\ q[1] = n}}

\* the paths ps of an element at position n, relative to the container
Above(ps, n) == {<<n>> \o p : p \in ps}

RECURSIVE AfterMoves(_, _)
\* the container c once the parts at the paths ps have been moved from
AfterMoves(c, ps) ==
    IF <<>> \in ps THEN MovedFrom(c)
    ELSE IF ps = {} \/ c.shape # "array" THEN c
    ELSE Array([k \in 1..Len(c.elems) |-> AfterMoves(c.elems[k], Below(ps, k))])

\* an outcome r with the paths mv moved from
WithMoved(r, mv) == [f \in DOMAIN r \cup {"moved"} |->
                        IF f = "moved" THEN mv ELSE r[f]]

\* the move that returning x by value from an rvalue makes
MovedWhole(c, tr) == IF tr /\ c.shape # "scalar" THEN {<<>>} ELSE {}

RECURSIVE rvalue(_, _, _)
RECURSIVE rvalue_array_uni(_, _, _)
RECURSIVE rvalue_array_idx(_, _, _)
RECURSIVE rvalue_array_loop(_, _, _, _, _, _, _)

\* array[uni, ...] as it would be if the remaining indexes were not passed on
rvalue_array_uni_drops_rest(v, is, tr) ==
    LET idx1 == is[1]
        c == Check("array[uni, ...] index", Len(v.elems), idx1.n_)
    IN  IF ~check_range(c) THEN WithMoved(Throw(<<>>, <<>>, c), {})
        ELSE LET r == rvalue(v.elems[(idx1.n_ - 1) + 1], <<>>, tr)
             IN  WithMoved(
                   After(<<c>>, <<Slice("v[]", idx1.n_ - 1, 1, Len(v.elems))>>, r),
                   Above(r.moved, idx1.n_))

\* rvalue(StdVec&& v, name, index_uni idx1, Idxs&&... idxs),
\* rvalue(StdVec& v, name, index_uni idx1, Idxs&&... idxs) and the three
\* rvalue(v, name, index_uni idx); tr: v is an rvalue
rvalue_array_uni(v, is, tr) ==
    LET idx1 == is[1]
        c == Check("array[uni, ...] index", Len(v.elems), idx1.n_)
    IN  IF ~check_range(c) THEN WithMoved(Throw(<<>>, <<>>, c), {})
        ELSE LET r == rvalue(v.elems[(idx1.n_ - 1) + 1], Tail(is), tr)
             IN  WithMoved(
                   After(<<c>>, <<Slice("v[]", idx1.n_ - 1, 1, Len(v.elems))>>, r),
                   Above(r.moved, idx1.n_))

\* the loop as it would be if the result were filled back to front
rvalue_array_loop_back_to_front(v, idx1, idxs_, StdVec, index_size, i, acc) ==
    IF ~(i < index_size)
    THEN WithMoved(Return(acc.checks, acc.slices, Array(acc.elems)), acc.moved)
    ELSE LET n == rvalue_at(i, idx1)
             c == Check("array[..., ...] index", Len(v.elems), n)
             by_move == idx1.kind # "multi" /\ is_rvalue_reference(StdVec)
         IN  IF ~check_range(c)
             THEN WithMoved(Throw(acc.checks, acc.slices, c), acc.moved)
             ELSE LET elem == AfterMoves(v.elems[(n - 1) + 1], Below(acc.moved, n))
                      r == rvalue(elem, idxs_, by_move)
                      cs == Append(acc.checks, c)
                      ss == Append(acc.slices, Slice("v[]", n - 1, 1, Len(v.elems)))
                      mv == acc.moved \cup Above(r.moved, n)
                  IN  IF r.status # "ok"
                      THEN WithMoved(After(cs, ss, r), mv)
                      ELSE rvalue_array_loop(v, idx1, idxs_, StdVec, index_size,
                              i + 1,
                              [checks |-> cs \o r.checks,
                               slices |-> ss \o r.slices,
                               elems |-> <<r.val>> \o acc.elems,
                               moved |-> mv])

\* the loop as it would be if it moved the elements of an lvalue v too
rvalue_array_loop_moves_lvalue(v, idx1, idxs_, StdVec, index_size, i, acc) ==
    IF ~(i < index_size)
    THEN WithMoved(Return(acc.checks, acc.slices, Array(acc.elems)), acc.moved)
    ELSE LET n == rvalue_at(i, idx1)
             c == Check("array[..., ...] index", Len(v.elems), n)
             by_move == idx1.kind # "multi"
         IN  IF ~check_range(c)
             THEN WithMoved(Throw(acc.checks, acc.slices, c), acc.moved)
             ELSE LET elem == AfterMoves(v.elems[(n - 1) + 1], Below(acc.moved, n))
                      r == rvalue(elem, idxs_, by_move)
                      cs == Append(acc.checks, c)
                      ss == Append(acc.slices, Slice("v[]", n - 1, 1, Len(v.elems)))
                      mv == acc.moved \cup Above(r.moved, n)
                  IN  IF r.status # "ok"
                      THEN WithMoved(After(cs, ss, r), mv)
                      ELSE rvalue_array_loop(v, idx1, idxs_, StdVec, index_size,
                              i + 1,
                              [checks |-> cs \o r.checks,
                               slices |-> ss \o r.slices,
                               elems |-> Append(acc.elems, r.val),
                               moved |-> mv])

\* the loop of rvalue(StdVec&& v, name, const Idx1& idx1, Idxs&&... idxs),
\* from output position i on; acc: the checks, slices, result elements and
\* moves made so far
rvalue_array_loop(v, idx1, idxs_, StdVec, index_size, i, acc) ==
    IF ~(i < index_size)
    THEN WithMoved(Return(acc.checks, acc.slices, Array(acc.elems)), acc.moved)
    ELSE LET n == rvalue_at(i, idx1)
             c == Check("array[..., ...] index", Len(v.elems), n)
             by_move == idx1.kind # "multi" /\ is_rvalue_reference(StdVec)
         IN  IF ~check_range(c)
             THEN WithMoved(Throw(acc.checks, acc.slices, c), acc.moved)
             ELSE LET elem == AfterMoves(v.elems[(n - 1) + 1], Below(acc.moved, n))
                      r == rvalue(elem, idxs_, by_move)
                      cs == Append(acc.checks, c)
                      ss == Append(acc.slices, Slice("v[]", n - 1, 1, Len(v.elems)))
                      mv == acc.moved \cup Above(r.moved, n)
                  IN  IF r.status # "ok"
                      THEN WithMoved(After(cs, ss, r), mv)
                      ELSE rvalue_array_loop(v, idx1, idxs_, StdVec, index_size,
                              i + 1,
                              [checks |-> cs \o r.checks,
                               slices |-> ss \o r.slices,
                               elems |-> Append(acc.elems, r.val),
                               moved |-> mv])

\* array[Idx1, ...] as it would be if index_size were required to be
\* greater than 0
rvalue_array_idx_strict_size(v, is, tr) ==
    LET idx1 == is[1]
        index_size == rvalue_index_size(idx1, Len(v.elems))
    IN  IF ~check_greater_or_equal(index_size, 1)
        THEN WithMoved(DomainError(<<>>, <<>>), {})
        ELSE rvalue_array_loop(v, idx1, Tail(is), DeducedStdVec(tr), index_size,
                0, [checks |-> <<>>, slices |-> <<>>, elems |-> <<>>,
                    moved |-> {}])

\* array[Idx1, ...] as it would be if min_max validated its lower bound
\* first, as the overloads for Eigen types do
rvalue_array_idx_checks_min(v, is, tr) ==
    LET idx1 == is[1]
        index_size == rvalue_index_size(idx1, Len(v.elems))
        c == Check("array[..., ...] index", Len(v.elems), idx1.min_)
    IN  IF idx1.kind = "min_max" /\ ~check_range(c)
        THEN WithMoved(Throw(<<>>, <<>>, c), {})
        ELSE IF idx1.kind \in {"min_max", "max"} /\ index_size = 0
        THEN WithMoved(Return(<<>>, <<>>, Array(<<>>)), {})
        ELSE rvalue_array_loop(v, idx1, Tail(is), DeducedStdVec(tr), index_size,
                0, [checks |-> <<>>, slices |-> <<>>, elems |-> <<>>,
                    moved |-> {}])

\* rvalue(StdVec&& v, name, const Idx1& idx1, Idxs&&... idxs), Idx1 not
\* index_uni; tr: v is an rvalue
rvalue_array_idx(v, is, tr) ==
    LET idx1 == is[1]
        index_size == rvalue_index_size(idx1, Len(v.elems))
    IN  IF ~check_greater_or_equal(index_size, 0)
        THEN WithMoved(DomainError(<<>>, <<>>), {})
        ELSE IF idx1.kind \in {"min_max", "max"} /\ index_size = 0
        THEN WithMoved(Return(<<>>, <<>>, Array(<<>>)), {})
        ELSE rvalue_array_loop(v, idx1, Tail(is), DeducedStdVec(tr), index_size,
                0, [checks |-> <<>>, slices |-> <<>>, elems |-> <<>>,
                    moved |-> {}])

\* Overload resolution of rvalue(c, name, is...) for an element type of an
\* array: a scalar (no index left), an Eigen vector or an array
rvalue(c, is, tr) ==
    IF is = <<>> THEN WithMoved(rvalue_nil(c), MovedWhole(c, tr))
    ELSE IF IsArray(c)
    THEN IF is[1].kind = "uni" THEN rvalue_array_uni(c, is, tr)
         ELSE IF is = <<index_omni>>
         THEN WithMoved(rvalue_omni(c, is[1]), MovedWhole(c, tr))
         ELSE IF is = <<index_omni, index_omni>>
         THEN WithMoved(rvalue_omni_omni(c, is[1], is[2]), MovedWhole(c, tr))
         ELSE rvalue_array_idx(c, is, tr)
    ELSE WithMoved(rvalue1(c, is[1]), {})

----------------------------------------------------------------------------
(* Inputs *)

\* the positions tried against an extent: below, inside and above 1..ext
Positions(ext) == (0 - 1)..(ext + 1)

SeqsUpTo(S, n) == UNION {[1..k -> S] : k \in 0..n}

Vectors == {Vector([i \in 1..n |-> s * i]) : n \in 0..MaxLen, s \in Scales}

Matrices ==
    {Matrix(R, C, [i \in 1..R |-> [j \in 1..C |-> s * ((i - 1) * C + j)]]) :
        R \in 0..MaxDim, C \in 0..MaxDim, s \in Scales}

\* arrays of scalars; arrays whose i-th element is an array, or an Eigen
\* vector, of i - 1 scalars; and the array [[1,2],[3,4,5]]
ArraysOfScalars ==
    {Array([i \in 1..n |-> Scalar(s * i)]) : n \in 0..MaxArr, s \in Scales}

ArraysOfArrays ==
    {Array([i \in 1..n |-> Array([j \in 1..(i - 1) |-> Scalar(10 * i + j)])]) :
        n \in 1..MaxArr}

ArraysOfVectors ==
    {Array([i \in 1..n |-> Vector([j \in 1..(i - 1) |-> 10 * i + j])]) :
        n \in 1..MaxArr}

ExampleNested ==
    Array(<<Array(<<Scalar(1), Scalar(2)>>),
            Array(<<Scalar(3), Scalar(4), Scalar(5)>>)>>)

Arrays ==
    ArraysOfScalars \cup ArraysOfArrays \cup ArraysOfVectors \cup {ExampleNested}

Containers == Vectors \cup Matrices \cup Arrays

\* the number of indexes a container takes
RECURSIVE Rank(_)
Rank(c) ==
    IF c.shape = "scalar" THEN 0
    ELSE IF c.shape = "vector" THEN 1
    ELSE IF c.shape = "matrix" THEN 2
    ELSE IF c.elems = <<>> THEN 1
    ELSE 1 + Rank(c.elems[1])

\* the largest extent of an element of the array c
RECURSIVE MaxOf(_)
MaxOf(S) ==
    IF S = {} THEN 0
    ELSE LET e == CHOOSE e \in S : TRUE
             r == MaxOf(S \ {e})
         IN  IF e > r THEN e ELSE r

InnerExtent(c) ==
    MaxOf({IF c.elems[k].shape = "array" THEN Len(c.elems[k].elems)
           ELSE size(c.elems[k]) : k \in 1..Len(c.elems)})

\* the positions tried against a matrix extent
MatPositions(ext) == 0..(ext + 1)

Unis(ext) == {index_uni(p) : p \in MatPositions(ext)}

Multis(ext) == {index_multi(ns) : ns \in SeqsUpTo(MatPositions(ext), MaxMultiMat)}

Mins(ext) == {index_min(p) : p \in MatPositions(ext)}

Maxs(ext) == {index_max(p) : p \in MatPositions(ext)}

MinMaxs(ext) ==
    {index_min_max(lo, hi) : lo \in MatPositions(ext), hi \in Positions(ext)}

\* the indexes other than index_uni
NotUnis(ext) ==
    {index_omni} \cup Multis(ext) \cup Mins(ext) \cup Maxs(ext) \cup MinMaxs(ext)

\* the first indexes other than index_uni tried against an array extent, with
\* the mins and maxs that leave a negative count of positions
ArrayIdx1s(ext) ==
    NotUnis(ext) \cup {index_min(p) : p \in Positions(ext + 1)}
                 \cup {index_max(p) : p \in Positions(ext)}

\* the index lists that may follow the first index of an array c
RestOf(c) ==
    IF Rank(c) < 2 THEN {<<>>}
    ELSE {<<>>} \cup {<<i>> : i \in Unis(InnerExtent(c)) \cup NotUnis(InnerExtent(c))}

----------------------------------------------------------------------------
(* The state machine: Init chooses the container, one action per overload  *)
(* resolves one index list against it.                                     *)

Init ==
    /\ x \in Containers
    /\ overload = "none"
    /\ idxs = <<>>
    /\ result = NotCalled
    /\ transient = FALSE

\* no index list has been resolved yet
Ready == overload = "none"

\* a call with the container passed as an rvalue (tr) or as an lvalue
CallAs(name, is, r, tr) ==
    /\ overload' = name
    /\ idxs' = is
    /\ result' = r
    /\ transient' = tr
    /\ UNCHANGED x

Call(name, is, r) == CallAs(name, is, r, FALSE)

VectorUni ==
    /\ Ready
    /\ IsVector(x)
    /\ \E p \in Positions(size(x)) :
          Call("vector[uni]", <<index_uni(p)>>,
               rvalue_vector_uni(x, index_uni(p)))

VectorMulti ==
    /\ Ready
    /\ IsVector(x)
    /\ \E ns \in SeqsUpTo(0..(size(x) + 1), MaxMulti) :
          Call("vector[multi]", <<index_multi(ns)>>,
               rvalue_vector_multi(x, index_multi(ns)))

VectorMinMax ==
    /\ Ready
    /\ IsVector(x)
    /\ \E lo \in Positions(size(x)), hi \in Positions(size(x)) :
          Call("vector[min_max]", <<index_min_max(lo, hi)>>,
               rvalue_vector_min_max(x, index_min_max(lo, hi)))

VectorMin ==
    /\ Ready
    /\ IsVector(x)
    /\ \E lo \in Positions(size(x)) :
          Call("vector[min]", <<index_min(lo)>>,
               rvalue_vector_min(x, index_min(lo)))

VectorMax ==
    /\ Ready
    /\ IsVector(x)
    /\ \E hi \in Positions(size(x)) :
          Call("vector[max]", <<index_max(hi)>>,
               rvalue_vector_max(x, index_max(hi)))

MatrixUni ==
    /\ Ready
    /\ IsMatrix(x)
    /\ \E i \in Unis(rows(x)) :
          Call("matrix[uni]", <<i>>, rvalue_matrix_uni(x, i))

MatrixMulti ==
    /\ Ready
    /\ IsMatrix(x)
    /\ \E i \in Multis(rows(x)) :
          Call("matrix[multi]", <<i>>, rvalue_matrix_multi(x, i))

MatrixMin ==
    /\ Ready
    /\ IsMatrix(x)
    /\ \E i \in Mins(rows(x)) :
          Call("matrix[min]", <<i>>, rvalue_matrix_min(x, i))

MatrixMax ==
    /\ Ready
    /\ IsMatrix(x)
    /\ \E i \in Maxs(rows(x)) :
          Call("matrix[max]", <<i>>, rvalue_matrix_max(x, i))

MatrixMinMax ==
    /\ Ready
    /\ IsMatrix(x)
    /\ \E i \in MinMaxs(rows(x)) :
          Call("matrix[min_max]", <<i>>, rvalue_matrix_min_max(x, i))

MatrixMinMaxMinMax ==
    /\ Ready
    /\ IsMatrix(x)
    /\ \E r \in MinMaxs(rows(x)), c \in MinMaxs(cols(x)) :
          Call("matrix[min_max, min_max]", <<r, c>>,
               rvalue_matrix_min_max_min_max(x, r, c))

MatrixUniUni ==
    /\ Ready
    /\ IsMatrix(x)
    /\ \E r \in Unis(rows(x)), c \in Unis(cols(x)) :
          Call("matrix[uni, uni]", <<r, c>>, rvalue_matrix_uni_uni(x, r, c))

MatrixUniMulti ==
    /\ Ready
    /\ IsMatrix(x)
    /\ \E r \in Unis(rows(x)), c \in Multis(cols(x)) :
          Call("matrix[uni, multi]", <<r, c>>, rvalue_matrix_uni_multi(x, r, c))

MatrixMultiUni ==
    /\ Ready
    /\ IsMatrix(x)
    /\ \E r \in Multis(rows(x)), c \in Unis(cols(x)) :
          Call("matrix[multi, uni]", <<r, c>>, rvalue_matrix_multi_uni(x, r, c))

MatrixMultiMulti ==
    /\ Ready
    /\ IsMatrix(x)
    /\ \E r \in Multis(rows(x)), c \in Multis(cols(x)) :
          Call("matrix[multi, multi]", <<r, c>>,
               rvalue_matrix_multi_multi(x, r, c))

\* the row indexes of the overloads generic in Idx: those no overload with a
\* fixed row index type takes
MatrixIdxUni ==
    /\ Ready
    /\ IsMatrix(x)
    /\ \E r \in {index_omni} \cup Mins(rows(x)) \cup Maxs(rows(x))
                  \cup MinMaxs(rows(x)),
          c \in Unis(cols(x)) :
          Call("matrix[Idx, uni]", <<r, c>>, rvalue_matrix_idx_uni(x, r, c))

MatrixIdxMulti ==
    /\ Ready
    /\ IsMatrix(x)
    /\ \E r \in {index_omni} \cup Mins(rows(x)) \cup Maxs(rows(x))
                  \cup MinMaxs(rows(x)),
          c \in Multis(cols(x)) :
          Call("matrix[Idx, multi]", <<r, c>>, rvalue_matrix_idx_multi(x, r, c))

MatrixIdxOmni ==
    /\ Ready
    /\ IsMatrix(x)
    /\ \E r \in Unis(rows(x)) \cup Multis(rows(x)) \cup Mins(rows(x))
                  \cup Maxs(rows(x)) \cup MinMaxs(rows(x)) :
          Call("matrix[Idx, omni]", <<r, index_omni>>,
               rvalue_matrix_idx_omni(x, r, index_omni))

MatrixIdxMin ==
    /\ Ready
    /\ IsMatrix(x)
    /\ \E r \in {index_omni} \cup Unis(rows(x)) \cup Multis(rows(x))
                  \cup Mins(rows(x)) \cup Maxs(rows(x)) \cup MinMaxs(rows(x)),
          c \in Mins(cols(x)) :
          Call("matrix[Idx, min]", <<r, c>>, rvalue_matrix_idx_min(x, r, c))

MatrixIdxMax ==
    /\ Ready
    /\ IsMatrix(x)
    /\ \E r \in {index_omni} \cup Unis(rows(x)) \cup Multis(rows(x))
                  \cup Mins(rows(x)) \cup Maxs(rows(x)) \cup MinMaxs(rows(x)),
          c \in Maxs(cols(x)) :
          Call("matrix[Idx, max]", <<r, c>>, rvalue_matrix_idx_max(x, r, c))

MatrixIdxMinMax ==
    /\ Ready
    /\ IsMatrix(x)
    /\ \E r \in {index_omni} \cup Unis(rows(x)) \cup Multis(rows(x))
                  \cup Mins(rows(x)) \cup Maxs(rows(x)),
          c \in MinMaxs(cols(x)) :
          Call("matrix[Idx, min_max]", <<r, c>>,
               rvalue_matrix_idx_min_max(x, r, c))

ArrayUni ==
    /\ Ready
    /\ IsArray(x)
    /\ \E i \in Unis(Len(x.elems)), rest \in RestOf(x), tr \in BOOLEAN :
          CallAs("array[uni, ...]", <<i>> \o rest,
                 rvalue_array_uni(x, <<i>> \o rest, tr), tr)

\* the lists <<omni>> and <<omni, omni>> go to the overloads for omni
ArrayIdx ==
    /\ Ready
    /\ IsArray(x)
    /\ \E i \in ArrayIdx1s(Len(x.elems)), rest \in RestOf(x), tr \in BOOLEAN :
          /\ ~(i = index_omni /\ rest \in {<<>>, <<index_omni>>})
          /\ CallAs("array[Idx1, ...]", <<i>> \o rest,
                    rvalue_array_idx(x, <<i>> \o rest, tr), tr)

Nil ==
    /\ Ready
    /\ Call("[]", <<>>, rvalue_nil(x))

Omni ==
    /\ Ready
    /\ Call("[omni]", <<index_omni>>, rvalue_omni(x, index_omni))

OmniOmni ==
    /\ Ready
    /\ IsMatrix(x) \/ (IsArray(x) /\ Rank(x) = 2)
    /\ Call("[omni, omni]", <<index_omni, index_omni>>,
            rvalue_omni_omni(x, index_omni, index_omni))

Next ==
    \/ Nil
    \/ Omni
    \/ OmniOmni
    \/ VectorUni
    \/ VectorMulti
    \/ VectorMinMax
    \/ VectorMin
    \/ VectorMax
    \/ MatrixUni
    \/ MatrixMulti
    \/ MatrixMin
    \/ MatrixMax
    \/ MatrixMinMax
    \/ MatrixMinMaxMinMax
    \/ MatrixUniUni
    \/ MatrixUniMulti
    \/ MatrixMultiUni
    \/ MatrixMultiMulti
    \/ MatrixIdxUni
    \/ MatrixIdxMulti
    \/ MatrixIdxOmni
    \/ MatrixIdxMin
    \/ MatrixIdxMax
    \/ MatrixIdxMinMax
    \/ ArrayUni
    \/ ArrayIdx

Spec == Init /\ [][Next]_vars

----------------------------------------------------------------------------
(* Properties.  In a state reached by a call, x is the container, idxs the *)
(* index list and result the outcome.                                      *)

InRange(p, ext) == 1 <= p /\ p <= ext

\* the call threw a RangeError that carries extent ext and position p
Raised(ext, p) ==
    /\ result.status = "RangeError"
    /\ result.max = ext
    /\ result.index = p
    /\ "val" \notin DOMAIN result

\* the checks made are exactly those of the <<extent, position>> pairs in s
Validated(s) ==
    /\ Len(result.checks) = Len(s)
    /\ \A i \in 1..Len(s) :
          result.checks[i].max = s[i][1] /\ result.checks[i].index = s[i][2]

\* the call returned the vector of the coefficients at offsets off .. off+n-1
ReturnedSegment(off, n) ==
    /\ result.status = "ok"
    /\ IsVector(result.val)
    /\ size(result.val) = n
    /\ \A k \in 0..(n - 1) : result.val.coeffs[k + 1] = x.coeffs[off + k + 1]

\* C1: vector[Uni(p)] is the scalar v[p-1] when 1 <= p <= n; otherwise it
\* raises a RangeError with extent n and position p and returns no value.
C1_VectorUni ==
    overload = "vector[uni]" =>
        LET p == idxs[1].n_
            n == size(x)
        IN  IF InRange(p, n)
            THEN result.status = "ok" /\ result.val = x.coeffs[p]
            ELSE Raised(n, p)

C1_Witness ==
    /\ overload = "vector[uni]"
    /\ size(x) >= 2
    /\ idxs[1].n_ = size(x)
    /\ result.status = "ok"
    /\ result.val = x.coeffs[size(x)]

\* C2: vector[Multi(positions)] with every position in [1, n] has length
\* |positions| and result[i] = v[positions[i]-1], duplicates and order kept;
\* [10,20,30,40,50] with Multi([2,2,1]) is [20,20,10]; no positions, no result.
C2_VectorMulti ==
    overload = "vector[multi]" =>
        LET ns == idxs[1].ns_
            n == size(x)
        IN  /\ (\A i \in 1..Len(ns) : InRange(ns[i], n)) =>
                /\ result.status = "ok"
                /\ IsVector(result.val)
                /\ size(result.val) = Len(ns)
                /\ \A i \in 1..Len(ns) : result.val.coeffs[i] = x.coeffs[ns[i]]
            /\ (x.coeffs = <<10, 20, 30, 40, 50>> /\ ns = <<2, 2, 1>>) =>
                result.val.coeffs = <<20, 20, 10>>
            /\ ns = <<>> => result.status = "ok" /\ result.val.coeffs = <<>>

C2_Witness ==
    /\ overload = "vector[multi]"
    /\ x.coeffs = <<10, 20, 30, 40, 50>>
    /\ idxs[1].ns_ = <<2, 2, 1>>
    /\ result.status = "ok"
    /\ result.val.coeffs = <<20, 20, 10>>

\* C3 as stated: vector[MinMax(lo, hi)] with hi < lo returns a result of
\* length 0 for every vector, whether or not hi is a valid position.
C3_EmptyRangeAlways ==
    (overload = "vector[min_max]" /\ idxs[1].max_ < idxs[1].min_) =>
        /\ result.status = "ok"
        /\ size(result.val) = 0

\* C3 amended: vector[MinMax(lo, hi)] with hi < lo and 1 <= lo <= n returns a
\* result of length 0, whether or not hi is a valid position; with hi < lo
\* and lo outside [1, n] it raises a RangeError with extent n and position lo.
C3_EmptyRangeValidMin ==
    (overload = "vector[min_max]" /\ idxs[1].max_ < idxs[1].min_) =>
        IF InRange(idxs[1].min_, size(x))
        THEN result.status = "ok" /\ size(result.val) = 0
        ELSE Raised(size(x), idxs[1].min_)

C3_Witness ==
    /\ overload = "vector[min_max]"
    /\ idxs[1].max_ < idxs[1].min_
    /\ InRange(idxs[1].min_, size(x))
    /\ ~InRange(idxs[1].max_, size(x))
    /\ result.status = "ok"
    /\ size(result.val) = 0

\* C4: vector[MinMax(lo, hi)]: lo is always validated against [1, n], also
\* when hi < lo; hi is validated only when hi >= lo; with hi >= lo and both
\* valid the result has length hi-lo+1 and result[k] = v[lo-1+k]; with
\* hi < lo and lo valid the result is empty and hi is never validated.
C4_VectorMinMax ==
    overload = "vector[min_max]" =>
        LET lo == idxs[1].min_
            hi == idxs[1].max_
            n == size(x)
        IN  IF ~InRange(lo, n) THEN Raised(n, lo) /\ Validated(<<<<n, lo>>>>)
            ELSE IF hi >= lo
            THEN IF ~InRange(hi, n)
                 THEN Raised(n, hi) /\ Validated(<<<<n, lo>>, <<n, hi>>>>)
                 ELSE /\ ReturnedSegment(lo - 1, hi - lo + 1)
                      /\ Validated(<<<<n, lo>>, <<n, hi>>>>)
            ELSE ReturnedSegment(lo - 1, 0) /\ Validated(<<<<n, lo>>>>)

C4_Witness ==
    /\ overload = "vector[min_max]"
    /\ idxs[1].max_ < idxs[1].min_
    /\ idxs[1].min_ = size(x) + 1
    /\ InRange(idxs[1].max_, size(x))
    /\ Raised(size(x), idxs[1].min_)

\* C5: vector[Max(hi)]: with hi > 0, hi is validated against [1, n] and the
\* result is the head v[0..hi-1]; with hi <= 0 the result is empty and no
\* bounds check is made, so nothing is raised, on an empty vector either.
C5_VectorMax ==
    overload = "vector[max]" =>
        LET hi == idxs[1].max_
            n == size(x)
        IN  IF hi > 0
            THEN IF InRange(hi, n)
                 THEN ReturnedSegment(0, hi) /\ Validated(<<<<n, hi>>>>)
                 ELSE Raised(n, hi)
            ELSE ReturnedSegment(0, 0) /\ Validated(<<>>)

C5_Witness ==
    /\ overload = "vector[max]"
    /\ idxs[1].max_ < 0
    /\ size(x) = 0
    /\ result.status = "ok"
    /\ result.checks = <<>>
    /\ size(result.val) = 0

\* C6: vector[Min(lo)]: lo is validated against [1, n], so lo = n+1 and
\* lo <= 0 raise a RangeError instead of giving an empty result; otherwise the
\* result is the tail [lo-1, n): length n-lo+1, result[k] = v[lo-1+k].
C6_VectorMin ==
    overload = "vector[min]" =>
        LET lo == idxs[1].min_
            n == size(x)
        IN  IF InRange(lo, n)
            THEN ReturnedSegment(lo - 1, n - lo + 1)
            ELSE Raised(n, lo)

C6_Witness ==
    /\ overload = "vector[min]"
    /\ size(x) >= 1
    /\ idxs[1].min_ = size(x) + 1
    /\ Raised(size(x), size(x) + 1)

\* the call returned the nr x nc matrix of the coefficients of x in rows
\* i0 .. i0+nr-1 and columns j0 .. j0+nc-1 (0-based)
ReturnedBlock(i0, j0, nr, nc) ==
    /\ result.status = "ok"
    /\ IsMatrix(result.val)
    /\ rows(result.val) = nr
    /\ cols(result.val) = nc
    /\ \A i \in 0..(nr - 1), j \in 0..(nc - 1) :
          result.val.coeffs[i + 1][j + 1] = x.coeffs[i0 + i + 1][j0 + j + 1]

\* C7: matrix[Uni(r), Uni(c)] is the scalar x[r-1][c-1] when both are in
\* range; r out of range raises a RangeError with the row extent R; r valid
\* and c out of range raises one with the column extent C; a row error never
\* carries the column extent nor a column error the row extent.
C7_MatrixUniUni ==
    overload = "matrix[uni, uni]" =>
        LET r == idxs[1].n_
            c == idxs[2].n_
        IN  IF ~InRange(r, rows(x))
            THEN Raised(rows(x), r)
                 /\ result.label = "matrix[uni,uni] row indexing"
            ELSE IF ~InRange(c, cols(x))
            THEN Raised(cols(x), c)
                 /\ result.label = "matrix[uni,uni] column indexing"
            ELSE result.status = "ok" /\ result.val = x.coeffs[r][c]

C7_Witness ==
    /\ overload = "matrix[uni, uni]"
    /\ rows(x) > cols(x)
    /\ cols(x) >= 1
    /\ InRange(idxs[1].n_, rows(x))
    /\ idxs[2].n_ = cols(x) + 1
    /\ Raised(cols(x), cols(x) + 1)

\* C8: matrix[MinMax(rlo,rhi), MinMax(clo,chi)]: row-min, then col-min, are
\* always validated first; both ranges non-empty: row-max and col-max are
\* validated and the result is the (rhi-rlo+1) x (chi-clo+1) block with
\* result[i][j] = x[rlo-1+i][clo-1+j]; exactly one range empty: only the
\* max of the non-empty range is validated and the result has size 0 in the
\* empty dimension and the length of the non-empty range in the other; both
\* empty: the result is 0 x 0 and neither max is validated.
C8_MatrixMinMaxMinMax ==
    overload = "matrix[min_max, min_max]" =>
        LET rlo == idxs[1].min_
            rhi == idxs[1].max_
            clo == idxs[2].min_
            chi == idxs[2].max_
            R == rows(x)
            C == cols(x)
            mins == <<<<R, rlo>>, <<C, clo>>>>
        IN  IF ~InRange(rlo, R) THEN Raised(R, rlo) /\ Validated(<<<<R, rlo>>>>)
            ELSE IF ~InRange(clo, C) THEN Raised(C, clo) /\ Validated(mins)
            ELSE IF rhi >= rlo /\ chi >= clo
            THEN IF ~InRange(rhi, R) THEN Raised(R, rhi)
                 ELSE IF ~InRange(chi, C) THEN Raised(C, chi)
                 ELSE /\ ReturnedBlock(rlo - 1, clo - 1, rhi - rlo + 1,
                                       chi - clo + 1)
                      /\ Validated(mins \o <<<<R, rhi>>, <<C, chi>>>>)
            ELSE IF rhi >= rlo
            THEN IF ~InRange(rhi, R) THEN Raised(R, rhi)
                 ELSE /\ ReturnedBlock(rlo - 1, clo - 1, rhi - rlo + 1, 0)
                      /\ Validated(mins \o <<<<R, rhi>>>>)
            ELSE IF chi >= clo
            THEN IF ~InRange(chi, C) THEN Raised(C, chi)
                 ELSE /\ ReturnedBlock(rlo - 1, clo - 1, 0, chi - clo + 1)
                      /\ Validated(mins \o <<<<C, chi>>>>)
            ELSE ReturnedBlock(rlo - 1, clo - 1, 0, 0) /\ Validated(mins)

C8_Witness ==
    /\ overload = "matrix[min_max, min_max]"
    /\ idxs[1].max_ > idxs[1].min_
    /\ idxs[2].max_ < idxs[2].min_
    /\ ~InRange(idxs[2].max_, cols(x))
    /\ result.status = "ok"
    /\ rows(result.val) = idxs[1].max_ - idxs[1].min_ + 1
    /\ cols(result.val) = 0

\* The column part of a two-index resolution, written from the meaning of
\* the column specifier: the position it has validated that is out of range
\* (<<>> when there is none), and the 1-based columns it selects, in order.
ColumnFault(col_idx, C) ==
    CASE col_idx.kind = "uni" ->
            IF InRange(col_idx.n_, C) THEN <<>> ELSE <<col_idx.n_>>
      [] col_idx.kind = "min" ->
            IF InRange(col_idx.min_, C) THEN <<>> ELSE <<col_idx.min_>>
      [] col_idx.kind = "max" ->
            IF col_idx.max_ <= 0 \/ InRange(col_idx.max_, C)
            THEN <<>> ELSE <<col_idx.max_>>
      [] col_idx.kind = "min_max" ->
            IF ~InRange(col_idx.min_, C) THEN <<col_idx.min_>>
            ELSE IF col_idx.max_ >= col_idx.min_ /\ ~InRange(col_idx.max_, C)
            THEN <<col_idx.max_>>
            ELSE <<>>

ColumnsOf(col_idx, C) ==
    CASE col_idx.kind = "uni" -> <<col_idx.n_>>
      [] col_idx.kind = "min" ->
            [k \in 1..(C - col_idx.min_ + 1) |-> col_idx.min_ + k - 1]
      [] col_idx.kind = "max" ->
            [k \in 1..col_idx.max_ |-> k]
      [] col_idx.kind = "min_max" ->
            [k \in 1..(col_idx.max_ - col_idx.min_ + 1) |-> col_idx.min_ + k - 1]

\* the sub-container of the selected columns: one column is a vector, a
\* column range a matrix with all the rows of m
ColumnsSelected(m, col_idx) ==
    LET js == ColumnsOf(col_idx, cols(m))
    IN  IF col_idx.kind = "uni"
        THEN Vector([i \in 1..rows(m) |-> m.coeffs[i][js[1]]])
        ELSE Matrix(rows(m), Len(js),
                    [i \in 1..rows(m) |-> [j \in 1..Len(js) |-> m.coeffs[i][js[j]]]])

\* C9: for a column specifier Uni, Min, Max or MinMax and a row specifier
\* taken by no bespoke overload, matrix[row_idx, col_idx] is what validating
\* and selecting the column or column range and then resolving the single
\* index row_idx against the selection gives: same values and shape, the same
\* inputs raising RangeError; rows [1,2,3]/[4,5,6]/[7,8,9] with
\* (Uni(2), MinMax(1,2)) give [4,5]; an empty column range still resolves
\* and validates row_idx, against the sub-matrix of no columns.
C9_ColumnThenRow ==
    overload \in {"matrix[Idx, uni]", "matrix[Idx, min]", "matrix[Idx, max]",
                  "matrix[Idx, min_max]"} =>
        LET fault == ColumnFault(idxs[2], cols(x))
            then == rvalue1(ColumnsSelected(x, idxs[2]), idxs[1])
        IN  IF fault # <<>> THEN Raised(cols(x), fault[1])
            ELSE /\ result.status = then.status
                 /\ then.status = "ok" => result.val = then.val
                 /\ then.status = "RangeError" => Raised(then.max, then.index)

C9_Witness ==
    /\ overload = "matrix[Idx, min_max]"
    /\ x.coeffs = <<<<1, 2, 3>>, <<4, 5, 6>>, <<7, 8, 9>>>>
    /\ idxs = <<index_uni(2), index_min_max(1, 2)>>
    /\ result.status = "ok"
    /\ result.val = Vector(<<4, 5>>)

\* C10: matrix[row_idx, Omni] has the outcome of matrix[row_idx] for every
\* row specifier: the same result, over all the columns, when row_idx is
\* valid, the same RangeError (extent and position) when it is not; Omni
\* makes no bounds check of its own.
C10_OmniColumn ==
    (overload = "matrix[Idx, omni]" \/ (overload = "[omni, omni]" /\ IsMatrix(x))) =>
        LET single == rvalue1(x, idxs[1])
        IN  /\ idxs[2] = index_omni
            /\ result.status = single.status
            /\ result.checks = single.checks
            /\ single.status = "ok" =>
                  /\ result.val = single.val
                  /\ IF IsVector(result.val)
                     THEN size(result.val) = cols(x)
                     ELSE cols(result.val) = cols(x)
            /\ single.status = "RangeError" => Raised(single.max, single.index)

C10_Witness ==
    /\ overload = "matrix[Idx, omni]"
    /\ idxs[1].kind = "min"
    /\ cols(x) = 0
    /\ rows(x) >= 2
    /\ result.status = "ok"
    /\ rows(result.val) = rows(x) - idxs[1].min_ + 1
    /\ cols(result.val) = 0


\* C11: resolving a container with no index, with one Omni or with two Omnis
\* returns a value equal to the input (extents and elements), makes no
\* bounds check and so raises nothing, for an empty container too; resolving
\* the result again the same way gives the same value.
C11_Identity ==
    overload \in {"[]", "[omni]", "[omni, omni]"} =>
        /\ result.status = "ok"
        /\ result.val = x
        /\ result.checks = <<>>
        /\ overload = "[]" => rvalue_nil(result.val).val = x
        /\ overload = "[omni]" => rvalue_omni(result.val, idxs[1]).val = x
        /\ overload = "[omni, omni]" =>
              rvalue_omni_omni(result.val, idxs[1], idxs[2]).val = x

C11_Witness ==
    /\ overload = "[omni]"
    /\ IsVector(x)
    /\ size(x) = 0
    /\ result.status = "ok"
    /\ result.val = x
    /\ result.checks = <<>>

\* the call returned the rows rs (1-based, in order) of x over all columns
ReturnedRows(rs) ==
    /\ result.status = "ok"
    /\ IsMatrix(result.val)
    /\ rows(result.val) = Len(rs)
    /\ cols(result.val) = cols(x)
    /\ \A i \in 1..Len(rs), j \in 1..cols(x) :
          result.val.coeffs[i][j] = x.coeffs[rs[i]][j]

RowRange(lo, hi) == [k \in 1..(hi - lo + 1) |-> lo + k - 1]

\* C12: one index on an R x C matrix selects rows over all C columns, by the
\* rules of the vector resolver applied to R: Uni(r) is row r-1 as a vector of
\* length C; Multi(positions) the |positions| x C matrix of those rows;
\* Min(lo) rows [lo-1, R); Max(hi) rows [0, hi) for hi > 0 and 0 x C with no
\* bounds check for hi <= 0; MinMax(lo,hi) validates lo always and hi only
\* when hi >= lo, and is hi-lo+1 rows from lo-1, or 0 x C when hi < lo; every
\* validation is against R.
C12_MatrixRows ==
    LET R == rows(x)
        i1 == idxs[1]
    IN  /\ overload = "matrix[uni]" =>
              IF InRange(i1.n_, R)
              THEN /\ result.status = "ok"
                   /\ IsVector(result.val)
                   /\ size(result.val) = cols(x)
                   /\ \A j \in 1..cols(x) :
                         result.val.coeffs[j] = x.coeffs[i1.n_][j]
              ELSE Raised(R, i1.n_)
        /\ overload = "matrix[multi]" =>
              IF \A i \in 1..Len(i1.ns_) : InRange(i1.ns_[i], R)
              THEN ReturnedRows(i1.ns_)
              ELSE result.status = "RangeError" /\ result.max = R
        /\ overload = "matrix[min]" =>
              IF InRange(i1.min_, R) THEN ReturnedRows(RowRange(i1.min_, R))
              ELSE Raised(R, i1.min_)
        /\ overload = "matrix[max]" =>
              IF i1.max_ > 0
              THEN IF InRange(i1.max_, R)
                   THEN ReturnedRows(RowRange(1, i1.max_))
                   ELSE Raised(R, i1.max_)
              ELSE ReturnedRows(<<>>) /\ Validated(<<>>)
        /\ overload = "matrix[min_max]" =>
              IF ~InRange(i1.min_, R)
              THEN Raised(R, i1.min_) /\ Validated(<<<<R, i1.min_>>>>)
              ELSE IF i1.max_ >= i1.min_
              THEN IF InRange(i1.max_, R)
                   THEN ReturnedRows(RowRange(i1.min_, i1.max_))
                   ELSE Raised(R, i1.max_)
              ELSE ReturnedRows(<<>>) /\ Validated(<<<<R, i1.min_>>>>)

C12_Witness ==
    /\ overload = "matrix[max]"
    /\ idxs[1].max_ = 0
    /\ rows(x) = 0
    /\ cols(x) >= 2
    /\ result.status = "ok"
    /\ rows(result.val) = 0
    /\ cols(result.val) = cols(x)
    /\ result.checks = <<>>


\* the remaining indexes resolved against the element at position p of x
Element(p) == rvalue(x.elems[p], Tail(idxs), transient)

\* C13: array[Uni(p), idx2, ...] on a sequence of length n validates p against
\* [1, n] before anything else; if p is valid the result is the resolution of
\* (idx2, ...) against s[p-1], and s[p-1] itself when no index remains
\* ([[1,2],[3,4,5]] with (Uni(2), Uni(1)) gives 3); if p is invalid a
\* RangeError with extent n is raised and no element is resolved.
C13_ArrayUni ==
    overload = "array[uni, ...]" =>
        LET p == idxs[1].n_
            n == Len(x.elems)
        IN  /\ result.checks[1].max = n /\ result.checks[1].index = p
            /\ IF ~InRange(p, n)
               THEN Raised(n, p) /\ Validated(<<<<n, p>>>>) /\ result.slices = <<>>
               ELSE /\ result.status = Element(p).status
                    /\ result.checks = <<result.checks[1]>> \o Element(p).checks
                    /\ result.status = "ok" => result.val = Element(p).val
                    /\ result.status = "RangeError" =>
                          Raised(Element(p).max, Element(p).index)
                    /\ Len(idxs) = 1 => result.status = "ok"
                                        /\ result.val = x.elems[p]
            /\ (x = ExampleNested /\ idxs = <<index_uni(2), index_uni(1)>>) =>
                  result.status = "ok" /\ result.val = Scalar(3)

C13_Witness ==
    /\ overload = "array[uni, ...]"
    /\ x = ExampleNested
    /\ idxs = <<index_uni(2), index_uni(1)>>
    /\ result.status = "ok"
    /\ result.val = Scalar(3)

FirstInvalid(ns, ext) ==
    IF \A i \in 1..Len(ns) : InRange(ns[i], ext) THEN 0
    ELSE CHOOSE i \in 1..Len(ns) :
            /\ ~InRange(ns[i], ext)
            /\ \A j \in 1..(i - 1) : InRange(ns[j], ext)

\* the Multi index ns, validated against ext after `before` other checks,
\* raised for its first invalid entry and checked no entry after it
StoppedAtFirst(ns, ext, before) ==
    /\ Raised(ext, ns[FirstInvalid(ns, ext)])
    /\ Len(result.checks) = before + FirstInvalid(ns, ext)

\* the 1-based positions an index selects in a sequence of length n, in
\* output order
PositionsOf(idx, n) ==
    CASE idx.kind = "multi" -> idx.ns_
      [] idx.kind = "omni" -> [k \in 1..n |-> k]
      [] idx.kind = "min" -> [k \in 1..(n - idx.min_ + 1) |-> idx.min_ + k - 1]
      [] idx.kind = "max" -> [k \in 1..idx.max_ |-> k]
      [] idx.kind = "min_max" ->
            [k \in 1..(idx.max_ - idx.min_ + 1) |-> idx.min_ + k - 1]

\* output position k of an array resolution fails: its source position is
\* invalid or the resolution of its element fails
OutputFails(ps, k) ==
    \/ ~InRange(ps[k], Len(x.elems))
    \/ Element(ps[k]).status # "ok"

\* C15: validation goes left to right and stops at the first invalid
\* position: a Multi with several invalid entries raises for the first one
\* in sequence order and checks no later entry; a RangeError leaves no
\* result, not a partial one; an array resolution with a multi or range first
\* index raises the error of the smallest output position whose outer
\* position or inner resolution fails.
C15_FirstInvalidAborts ==
    /\ (overload # "none" /\ result.status = "RangeError") =>
          /\ "val" \notin DOMAIN result
          /\ ~check_range(result.checks[Len(result.checks)])
          /\ \A i \in 1..(Len(result.checks) - 1) :
                InRange(result.checks[i].index, result.checks[i].max)
    /\ (overload = "vector[multi]" /\ FirstInvalid(idxs[1].ns_, size(x)) > 0) =>
          StoppedAtFirst(idxs[1].ns_, size(x), 0)
    /\ (overload = "matrix[multi]" /\ FirstInvalid(idxs[1].ns_, rows(x)) > 0) =>
          StoppedAtFirst(idxs[1].ns_, rows(x), 0)
    /\ (/\ overload = "matrix[uni, multi]"
        /\ InRange(idxs[1].n_, rows(x))
        /\ FirstInvalid(idxs[2].ns_, cols(x)) > 0) =>
          StoppedAtFirst(idxs[2].ns_, cols(x), 1)
    /\ (/\ overload = "matrix[multi, uni]"
        /\ InRange(idxs[2].n_, cols(x))
        /\ FirstInvalid(idxs[1].ns_, rows(x)) > 0) =>
          StoppedAtFirst(idxs[1].ns_, rows(x), 1)
    /\ (overload = "matrix[multi, multi]"
        /\ FirstInvalid(idxs[1].ns_, rows(x)) > 0) =>
          StoppedAtFirst(idxs[1].ns_, rows(x), 0)
    /\ (/\ overload = "matrix[multi, multi]"
        /\ FirstInvalid(idxs[1].ns_, rows(x)) = 0
        /\ FirstInvalid(idxs[2].ns_, cols(x)) > 0) =>
          StoppedAtFirst(idxs[2].ns_, cols(x), Len(idxs[1].ns_))
    /\ (overload = "matrix[Idx, multi]"
        /\ FirstInvalid(idxs[2].ns_, cols(x)) > 0) =>
          StoppedAtFirst(idxs[2].ns_, cols(x), 0)
    /\ overload = "array[Idx1, ...]" =>
          LET ps == PositionsOf(idxs[1], Len(x.elems))
              bad == {k \in 1..Len(ps) : OutputFails(ps, k)}
              k0 == CHOOSE k \in bad : \A j \in bad : k <= j
          IN  IF bad = {} THEN result.status = "ok"
              ELSE IF ~InRange(ps[k0], Len(x.elems))
              THEN Raised(Len(x.elems), ps[k0])
              ELSE Raised(Element(ps[k0]).max, Element(ps[k0]).index)

C15_Witness ==
    /\ overload = "matrix[multi, multi]"
    /\ Len(idxs[1].ns_) = 2
    /\ InRange(idxs[1].ns_[1], rows(x))
    /\ idxs[1].ns_[2] = rows(x) + 1
    /\ idxs[2].ns_ = <<0, 0>>
    /\ Raised(rows(x), rows(x) + 1)
    /\ Len(result.checks) = 2


\* the labels that name the combination of a two-index matrix overload
OwnLabels(combination) ==
    {combination \o " row indexing", combination \o " column indexing",
     combination \o " col indexing"}

\* C16: every bounds check carries the label of the index-kind/dimension
\* combination being checked: the checks made by (Multi, Uni), (Uni, Multi)
\* and (Multi, Multi) on a matrix carry labels naming their own combination,
\* so that no two of these combinations share a label.
C16_OwnLabels ==
    overload \in {"matrix[uni, multi]", "matrix[multi, uni]",
                  "matrix[multi, multi]"} =>
        \A i \in 1..Len(result.checks) :
            result.checks[i].label \in OwnLabels(overload)


\* the concatenation of f[1], ..., f[k]
RECURSIVE Concat(_, _)
Concat(f, k) == IF k = 0 THEN <<>> ELSE Concat(f, k - 1) \o f[k]

\* C17: array[idx1, idx2, ...] with idx1 a Multi, Min, Max, MinMax or Omni on
\* a sequence of length n gives a new sequence with one element for each
\* position idx1 selects; output position i, taken in increasing order,
\* validates the i-th selected position against n and holds the resolution
\* of (idx2, ...) against the element at that position, so a Multi with
\* duplicate or reordered positions gives duplicate or reordered outputs.
C17_ArrayLoop ==
    (overload = "array[Idx1, ...]" /\ result.status = "ok") =>
        LET n == Len(x.elems)
            ps == PositionsOf(idxs[1], n)
        IN  /\ result.val.shape = "array"
            /\ Len(result.val.elems) = Len(ps)
            /\ Len(ps) = rvalue_index_size(idxs[1], n)
            /\ \A k \in 1..Len(ps) :
                  /\ ps[k] = rvalue_at(k - 1, idxs[1])
                  /\ InRange(ps[k], n)
                  /\ result.val.elems[k] = Element(ps[k]).val
                  /\ Len(idxs) = 1 => result.val.elems[k] = x.elems[ps[k]]
            /\ result.checks =
                  Concat([k \in 1..Len(ps) |->
                            <<Check("array[..., ...] index", n, ps[k])>>
                               \o Element(ps[k]).checks], Len(ps))

C17_Witness ==
    /\ overload = "array[Idx1, ...]"
    /\ x = ExampleNested
    /\ idxs = <<index_multi(<<2, 1>>), index_uni(2)>>
    /\ result.status = "ok"
    /\ result.val = Array(<<Scalar(4), Scalar(2)>>)

C19_Moves ==
    overload \in {"array[uni, ...]", "array[Idx1, ...]"} =>
        /\ result.moved # {} => idxs[1].kind # "multi" /\ transient
        /\ ~transient => result.moved = {} /\ AfterMoves(x, result.moved) = x
        /\ (idxs[1].kind = "multi" /\ result.status = "ok") =>
              \A k \in 1..Len(idxs[1].ns_) :
                  /\ result.val.elems[k] =
                        rvalue(x.elems[idxs[1].ns_[k]], Tail(idxs), FALSE).val
                  /\ Len(idxs) = 1 =>
                        result.val.elems[k] = x.elems[idxs[1].ns_[k]]

C19_Witness ==
    /\ overload = "array[Idx1, ...]"
    /\ transient
    /\ idxs = <<index_multi(<<2, 2>>)>>
    /\ Len(x.elems) >= 2
    /\ x.elems[2].shape = "array"
    /\ result.status = "ok"
    /\ result.val = Array(<<x.elems[2], x.elems[2]>>)
    /\ result.moved = {}

\* the generic resolution of (row MinMax, column MinMax): select the column
\* range, then apply the row MinMax to the selected sub-matrix
Composition == rvalue_matrix_idx_min_max(x, idxs[1], idxs[2])

\* C20: the overload for (MinMax, MinMax) on a matrix agrees with the generic
\* composition it replaces: it raises an error exactly when selecting the
\* column range and then applying the row MinMax to the sub-matrix raises
\* one, and when both succeed the results have the same shape and the same
\* elements; only the invalid bound reported first may differ.
C20_BespokeAgrees ==
    overload = "matrix[min_max, min_max]" =>
        /\ result.status = "RangeError" <=> Composition.status = "RangeError"
        /\ result.status = "ok" <=> Composition.status = "ok"
        /\ result.status = "ok" =>
              /\ rows(result.val) = rows(Composition.val)
              /\ cols(result.val) = cols(Composition.val)
              /\ result.val = Composition.val

C20_Witness ==
    /\ overload = "matrix[min_max, min_max]"
    /\ rows(x) = 2 /\ cols(x) = 2
    /\ idxs = <<index_min_max(0, 3), index_min_max(0, 3)>>
    /\ result.status = "RangeError"
    /\ Composition.status = "RangeError"
    /\ result.label # Composition.label


\* a slice or an element access that stays inside its source
InsideSource(s) == s.off >= 0 /\ s.len >= 0 /\ s.off + s.len <= s.ext

\* C21: no resolution reads or slices outside its source: for every vector,
\* matrix and nested sequence, empty ones included, and every index list,
\* each element access and each segment, block, rows or columns slice the
\* resolution reaches has a 0-based offset >= 0, a length >= 0 and
\* offset + length <= the extent of its source in that dimension, also on the
\* empty-range paths that skip a bounds check and for a Min whose length is
\* computed before its bound is validated.
C21_SliceSafety ==
    overload # "none" =>
        \A i \in 1..Len(result.slices) : InsideSource(result.slices[i])

C21_Witness ==
    /\ overload = "matrix[min_max, min_max]"
    /\ rows(x) = 2 /\ cols(x) = 2
    /\ idxs = <<index_min_max(2, 1), index_min_max(2, 0)>>
    /\ result.status = "ok"
    /\ Len(result.checks) = 2
    /\ result.slices = <<Slice("block", 1, 0, 2), Slice("block", 1, 0, 2)>>

====
